---- MODULE Spec2Model ----
(***************************************************************************)
(* Model of the geometry primitives of lifeash (lifeash/src/core.rs):      *)
(* Position, Offset, Quadrant and Level, together with the canonical node  *)
(* store and the universe facade that are built on them.                   *)
(*                                                                         *)
(* Machine integers keep their width.  A 64-bit word (i64 or u64) is a     *)
(* tuple of four 16-bit limbs, least significant first, in two's           *)
(* complement; a u8 is a natural number below 256.  Arithmetic that leaves *)
(* the type's range panics when the build has overflow checks and wraps    *)
(* when it has not; both builds are modelled (overflow_checks), as are     *)
(* builds with and without debug assertions (debug_assertions).            *)
(***************************************************************************)
EXTENDS Integers, Sequences, FiniteSets, TLC

VARIABLES
    overflow_checks,   \* build option: arithmetic overflow panics
    debug_assertions,  \* build option: debug_assert! is compiled in
    op,                \* the operation applied last ("init": none yet)
    arg,               \* its inputs
    ret,               \* what it returned
    nodes,             \* canonical node store: sequence of node contents
    calls,             \* store calls made so far: (content asked, ref returned)
    universe,          \* current universe handle [root, level]
    before,            \* universe handle the last set_cell was applied to
    snap,              \* the node store as it was before the last set_cell
    nops               \* number of facade operations applied

vars == <<overflow_checks, debug_assertions, op, arg, ret,
          nodes, calls, universe, before, snap, nops>>

(***************************************************************************)
(* Machine words                                                           *)
(***************************************************************************)
LimbBits == 16
NLimbs == 4
LimbBase == 2^LimbBits
U8Modulus == 256

Word == [1..NLimbs -> 0..(LimbBase - 1)]

\* the word of a natural number below 2^31
W(n) == <<n % LimbBase, (n \div LimbBase) % LimbBase, 0, 0>>

ZeroW == W(0)
OneW == W(1)

\* wrapping 64-bit addition, with the carry out of bit 63
WAdd(a, b) ==
    LET s1 == a[1] + b[1]
        s2 == a[2] + b[2] + (s1 \div LimbBase)
        s3 == a[3] + b[3] + (s2 \div LimbBase)
        s4 == a[4] + b[4] + (s3 \div LimbBase)
    IN  [val |-> <<s1 % LimbBase, s2 % LimbBase, s3 % LimbBase, s4 % LimbBase>>,
         carry |-> s4 \div LimbBase]

WNot(a) == [i \in 1..NLimbs |-> (LimbBase - 1) - a[i]]

\* wrapping two's complement negation
WNeg(a) == WAdd(WNot(a), OneW).val

\* sign bit of an i64
Negative(a) == a[NLimbs] >= LimbBase \div 2

\* unsigned order
ULt(a, b) ==
    \E i \in 1..NLimbs :
        /\ a[i] < b[i]
        /\ \A j \in (i + 1)..NLimbs : a[j] = b[j]

\* signed order of i64
ILt(a, b) ==
    IF Negative(a) # Negative(b) THEN Negative(a) ELSE ULt(a, b)

ILe(a, b) == a = b \/ ILt(a, b)

\* the word with only bit k set, k in 0..63
Bit(k) == [i \in 1..NLimbs |-> IF i = (k \div LimbBits) + 1 THEN 2^(k % LimbBits) ELSE 0]

\* u64 division by four
UDiv4(a) ==
    [i \in 1..NLimbs |->
        (a[i] \div 4) + (IF i < NLimbs THEN (a[i + 1] % 4) * (LimbBase \div 4) ELSE 0)]

\* the i64 of a small integer
I(n) == IF n >= 0 THEN W(n) ELSE WNeg(W(-n))

(***************************************************************************)
(* Results of operations that may panic                                    *)
(***************************************************************************)
Ok(v) == [panic |-> FALSE, val |-> v]
PanicN == [panic |-> TRUE, val |-> 0]
PanicW == [panic |-> TRUE, val |-> ZeroW]

\* u8 + u8
U8Add(a, b) ==
    IF a + b >= U8Modulus
    THEN IF overflow_checks THEN PanicN ELSE Ok((a + b) % U8Modulus)
    ELSE Ok(a + b)

\* u8 - u8
U8Sub(a, b) ==
    IF a < b
    THEN IF overflow_checks THEN PanicN ELSE Ok((a - b) + U8Modulus)
    ELSE Ok(a - b)

\* i64 + i64
I64Add(a, b) ==
    LET r == WAdd(a, b).val
    IN  IF Negative(a) = Negative(b) /\ Negative(r) # Negative(a)
        THEN IF overflow_checks THEN PanicW ELSE Ok(r)
        ELSE Ok(r)

\* i64 - i64
I64Sub(a, b) ==
    LET r == WAdd(a, WNeg(b)).val
    IN  IF Negative(a) # Negative(b) /\ Negative(r) # Negative(a)
        THEN IF overflow_checks THEN PanicW ELSE Ok(r)
        ELSE Ok(r)

\* -x on i64
I64Neg(a) ==
    IF a = Bit(63)
    THEN IF overflow_checks THEN PanicW ELSE Ok(a)
    ELSE Ok(WNeg(a))

\* 1 << k on a 64-bit word, k a u8
Shl1(k) ==
    IF k >= LimbBits * NLimbs
    THEN IF overflow_checks THEN PanicW ELSE Ok(Bit(k % (LimbBits * NLimbs)))
    ELSE Ok(Bit(k))

\* i64::try_from(u64).unwrap()
I64TryFromU64(a) == IF Negative(a) THEN PanicW ELSE Ok(a)

(***************************************************************************)
(* Level                                                                   *)
(***************************************************************************)
MAX_LEVEL == 63
LEAF_LEVEL == 0

\* Level::check_validity: TRUE when it panics
check_validity(l) == l > MAX_LEVEL

\* impl Add for Level, impl Add<u8> for Level
Level_add(a, b) ==
    LET s == U8Add(a, b)
    IN  IF s.panic THEN s
        ELSE IF check_validity(s.val) THEN PanicN ELSE s

\* impl AddAssign for Level, impl AddAssign<u8> for Level: val is what is left in self
Level_add_assign(a, b) ==
    LET s == U8Add(a, b)
    IN  IF s.panic THEN [panic |-> TRUE, val |-> a]
        ELSE [panic |-> check_validity(s.val), val |-> s.val]

\* impl Sub for Level, impl Sub<u8> for Level
Level_sub(a, b) == U8Sub(a, b)

\* impl SubAssign for Level, impl SubAssign<u8> for Level: val is what is left in self
Level_sub_assign(a, b) ==
    LET s == U8Sub(a, b)
    IN  IF s.panic THEN [panic |-> TRUE, val |-> a] ELSE s

\* Level::side_len
side_len(l) == Shl1(l)

\* max_steps shifting by one bit too many
max_steps_off_by_one(l) ==
    IF debug_assertions /\ ~(l >= 2) THEN PanicW
    ELSE LET d == U8Sub(l, 1)
         IN  IF d.panic THEN PanicW ELSE Shl1(d.val)

\* Level::max_steps
max_steps(l) ==
    IF debug_assertions /\ ~(l >= 2) THEN PanicW
    ELSE LET d == U8Sub(l, 2)
         IN  IF d.panic THEN PanicW ELSE Shl1(d.val)

(***************************************************************************)
(* Position, Offset, Quadrant                                              *)
(***************************************************************************)
Quadrants == {"NorthWest", "NorthEast", "SouthWest", "SouthEast"}

Pos(x, y) == [x |-> x, y |-> y]
Off(dx, dy) == [dx |-> dx, dy |-> dy]
ORIGIN == Pos(ZeroW, ZeroW)
PanicP == [panic |-> TRUE, val |-> ORIGIN]
PanicO == [panic |-> TRUE, val |-> Off(ZeroW, ZeroW)]
PanicB == [panic |-> TRUE, val |-> FALSE]

\* Position::quadrant
quadrant(p) ==
    CASE Negative(p.x) /\ Negative(p.y) -> "NorthWest"
      [] ~Negative(p.x) /\ Negative(p.y) -> "NorthEast"
      [] Negative(p.x) /\ ~Negative(p.y) -> "SouthWest"
      [] ~Negative(p.x) /\ ~Negative(p.y) -> "SouthEast"

\* impl Add<Offset> for Position
Position_add(p, o) ==
    LET x == I64Add(p.x, o.dx)
        y == I64Add(p.y, o.dy)
    IN  IF x.panic \/ y.panic THEN PanicP ELSE Ok(Pos(x.val, y.val))

\* impl Sub<Offset> for Position
Position_sub(p, o) ==
    LET x == I64Sub(p.x, o.dx)
        y == I64Sub(p.y, o.dy)
    IN  IF x.panic \/ y.panic THEN PanicP ELSE Ok(Pos(x.val, y.val))

\* relative_to that translates by other instead of by its negation
relative_to_unnegated(p, other) == Position_add(p, Off(other.x, other.y))

\* Position::relative_to
relative_to(p, other) ==
    LET nx == I64Neg(other.x)
        ny == I64Neg(other.y)
    IN  IF nx.panic \/ ny.panic THEN PanicP
        ELSE Position_add(p, Off(nx.val, ny.val))

\* impl Add for Offset
Offset_add(a, b) ==
    LET dx == I64Add(a.dx, b.dy)
        dy == I64Add(a.dy, b.dy)
    IN  IF dx.panic \/ dy.panic THEN PanicO ELSE Ok(Off(dx.val, dy.val))

\* impl AddAssign for Offset: val is what is left in self; the dx step is
\* committed before the dy step can panic
Offset_add_assign(a, b) ==
    LET dx == I64Add(a.dx, b.dx)
        dy == I64Add(a.dy, b.dy)
    IN  IF dx.panic THEN [panic |-> TRUE, val |-> a]
        ELSE IF dy.panic THEN [panic |-> TRUE, val |-> Off(dx.val, a.dy)]
        ELSE Ok(Off(dx.val, dy.val))

\* impl Sub for Offset
Offset_sub(a, b) ==
    LET dx == I64Sub(a.dx, b.dy)
        dy == I64Sub(a.dy, b.dy)
    IN  IF dx.panic \/ dy.panic THEN PanicO ELSE Ok(Off(dx.val, dy.val))

\* impl SubAssign for Offset: val is what is left in self; the dx step is
\* committed before the dy step can panic
Offset_sub_assign(a, b) ==
    LET dx == I64Sub(a.dx, b.dx)
        dy == I64Sub(a.dy, b.dy)
    IN  IF dx.panic THEN [panic |-> TRUE, val |-> a]
        ELSE IF dy.panic THEN [panic |-> TRUE, val |-> Off(dx.val, a.dy)]
        ELSE Ok(Off(dx.val, dy.val))

\* quadrant_center with the offsets of NorthEast and SouthWest exchanged
quadrant_center_swapped(l, q) ==
    LET s == side_len(l)
        delta == IF s.panic THEN PanicW ELSE I64TryFromU64(UDiv4(s.val))
        neg == IF delta.panic THEN PanicW ELSE I64Neg(delta.val)
    IN  IF delta.panic \/ neg.panic THEN PanicP
        ELSE CASE q = "NorthWest" -> Ok(Pos(neg.val, neg.val))
               [] q = "NorthEast" -> Ok(Pos(neg.val, delta.val))
               [] q = "SouthWest" -> Ok(Pos(delta.val, neg.val))
               [] q = "SouthEast" -> Ok(Pos(delta.val, delta.val))

\* Level::quadrant_center
quadrant_center(l, q) ==
    LET s == side_len(l)
        delta == IF s.panic THEN PanicW ELSE I64TryFromU64(UDiv4(s.val))
        neg == IF delta.panic THEN PanicW ELSE I64Neg(delta.val)
    IN  IF delta.panic \/ neg.panic THEN PanicP
        ELSE CASE q = "NorthWest" -> Ok(Pos(neg.val, neg.val))
               [] q = "NorthEast" -> Ok(Pos(delta.val, neg.val))
               [] q = "SouthWest" -> Ok(Pos(neg.val, delta.val))
               [] q = "SouthEast" -> Ok(Pos(delta.val, delta.val))

\* Level::min_coord
min_coord(l) ==
    LET d == U8Sub(l, 1)
        s == IF d.panic THEN PanicW ELSE Shl1(d.val)
    IN  IF s.panic THEN PanicW ELSE I64Neg(s.val)

\* Level::max_coord
max_coord(l) ==
    LET d == U8Sub(l, 1)
        s == IF d.panic THEN PanicW ELSE Shl1(d.val)
    IN  IF s.panic THEN PanicW ELSE I64Sub(s.val, OneW)

\* Level::coord_range: the Range min_coord()..max_coord()
coord_range(l) ==
    LET lo == min_coord(l)
        hi == max_coord(l)
    IN  IF lo.panic \/ hi.panic
        THEN [panic |-> TRUE, val |-> [start |-> ZeroW, end |-> ZeroW]]
        ELSE Ok([start |-> lo.val, end |-> hi.val])

\* Range<i64>::contains
Range_contains(r, x) == ILe(r.start, x) /\ ILt(x, r.end)

\* Position::in_bounds
in_bounds(p, l) ==
    LET bounds == coord_range(l)
    IN  IF bounds.panic THEN PanicB
        ELSE Ok(Range_contains(bounds.val, p.x) /\ Range_contains(bounds.val, p.y))

\* Level::min_pos
min_pos(l) ==
    LET m == min_coord(l)
    IN  IF m.panic THEN PanicP ELSE Ok(Pos(m.val, m.val))

\* Level::max_pos
max_pos(l) ==
    LET m == max_coord(l)
    IN  IF m.panic THEN PanicP ELSE Ok(Pos(m.val, m.val))

(***************************************************************************)
(* Builds, and the part of the state an arithmetic run leaves alone        *)
(***************************************************************************)
storeVars == <<nodes, calls, universe, before, snap, nops>>
buildVars == <<overflow_checks, debug_assertions>>

NoUniverse == [root |-> 0, level |-> 0]

Builds ==
    /\ overflow_checks \in BOOLEAN
    /\ debug_assertions \in BOOLEAN

StoreIdle ==
    /\ nodes = <<>>
    /\ calls = {}
    /\ universe = NoUniverse
    /\ before = NoUniverse
    /\ snap = <<>>
    /\ nops = 0

\* one call of a pure operation on the inputs drawn by Init
Apply(name, result) ==
    /\ op = "init"
    /\ op' = name
    /\ ret' = result
    /\ UNCHANGED <<arg, buildVars, storeVars>>

(***************************************************************************)
(* Level arithmetic: a Level a in [0, MAX_LEVEL] and an operand b, a u8    *)
(***************************************************************************)
InitLevel ==
    /\ Builds
    /\ StoreIdle
    /\ op = "init"
    /\ arg \in [a : LEAF_LEVEL..MAX_LEVEL, b : 0..(U8Modulus - 1)]
    /\ ret = Ok(0)

\* the operand of the Level-by-Level operators is itself a Level
OperandIsLevel == arg.b \in LEAF_LEVEL..MAX_LEVEL

LevelAdd == OperandIsLevel /\ Apply("add", Level_add(arg.a, arg.b))
LevelAddU8 == Apply("add_u8", Level_add(arg.a, arg.b))
LevelAddAssign == OperandIsLevel /\ Apply("add_assign", Level_add_assign(arg.a, arg.b))
LevelAddAssignU8 == Apply("add_assign_u8", Level_add_assign(arg.a, arg.b))
LevelSub == OperandIsLevel /\ Apply("sub", Level_sub(arg.a, arg.b))
LevelSubU8 == Apply("sub_u8", Level_sub(arg.a, arg.b))
LevelSubAssign == OperandIsLevel /\ Apply("sub_assign", Level_sub_assign(arg.a, arg.b))
LevelSubAssignU8 == Apply("sub_assign_u8", Level_sub_assign(arg.a, arg.b))
LevelMaxSteps == arg.b = 0 /\ Apply("max_steps", max_steps(arg.a))

NextLevel ==
    \/ LevelAdd
    \/ LevelAddU8
    \/ LevelAddAssign
    \/ LevelAddAssignU8
    \/ LevelSub
    \/ LevelSubU8
    \/ LevelSubAssign
    \/ LevelSubAssignU8
    \/ LevelMaxSteps

SpecLevel == InitLevel /\ [][NextLevel]_vars

AddOps == {"add", "add_u8", "add_assign", "add_assign_u8"}
SubOps == {"sub", "sub_u8", "sub_assign", "sub_assign_u8"}

\* Bit(k) is 2^k: Bit(0) is one and each Bit(j), j <= k, is twice Bit(j-1)
\* without a carry out of the word
IsPow2(k) ==
    /\ Bit(0) = OneW
    /\ \A j \in 1..k : WAdd(Bit(j - 1), Bit(j - 1)) = [val |-> Bit(j), carry |-> 0]

Pow2(k) == Bit(k)

\* C1: every Level addition a + b, a += b either panics or yields exactly
\* a + b with a + b <= MAX_LEVEL; it never yields a wrapped value.
C1_AddNeverExceeds ==
    op \in AddOps =>
        \/ ret.panic
        \/ /\ ret.val = arg.a + arg.b
           /\ arg.a + arg.b <= MAX_LEVEL

\* C2: every Level subtraction a - b, a -= b with b > a panics, and with
\* b <= a yields exactly a - b.
C2_SubRejectsUnderflow ==
    op \in SubOps =>
        IF arg.b > arg.a
        THEN ret.panic
        ELSE ~ret.panic /\ ret.val = arg.a - arg.b

\* what the Level operators do guarantee: the claims of C1 and C2 hold in a
\* build with overflow checks, for operands that do not leave u8, and for
\* the Level-by-Level addition
LevelArithmeticWithChecks ==
    /\ (op \in AddOps /\ (overflow_checks \/ arg.a + arg.b < U8Modulus)) => C1_AddNeverExceeds
    /\ op \in {"add", "add_assign"} => C1_AddNeverExceeds
    /\ (op \in SubOps /\ (overflow_checks \/ arg.b <= arg.a)) => C2_SubRejectsUnderflow

\* C5: for L in [2, 63] max_steps(L) returns 2^(L-2) without overflow, for
\* L in [3, 63] it is twice max_steps(L-1), and for L < 2 the call violates
\* the asserted contract: it panics wherever the assertion or the overflow
\* check is compiled in.
C5_MaxSteps ==
    op = "max_steps" =>
        /\ arg.a >= 2 => ret = Ok(Pow2(arg.a - 2)) /\ IsPow2(arg.a - 2)
        /\ arg.a >= 3 =>
              LET prev == max_steps(arg.a - 1)
              IN  /\ ~prev.panic
                  /\ WAdd(prev.val, prev.val) = [val |-> ret.val, carry |-> 0]
        /\ (arg.a < 2 /\ (debug_assertions \/ overflow_checks)) => ret.panic

C5_Witness ==
    /\ op = "max_steps"
    /\ arg.a = MAX_LEVEL
    /\ ~ret.panic
    /\ ret.val = Bit(MAX_LEVEL - 2)

(***************************************************************************)
(* Geometry: inputs are drawn around the bounds of the level they are      *)
(* used at, and around the limits of i64                                   *)
(***************************************************************************)
I64_MIN == Bit(63)
I64_MAX == WNot(Bit(63))

Plus(a, n) == WAdd(a, I(n)).val

\* coordinates on and next to the bounds of level l and of its quadrants
Coords(l) ==
    {I(-1), I(0), I(1), I64_MIN, I64_MAX}
    \cup (IF l >= 1 /\ l <= MAX_LEVEL
          THEN {Plus(WNeg(Bit(l - 1)), -1), WNeg(Bit(l - 1)),
                Plus(Bit(l - 1), -2), Plus(Bit(l - 1), -1), Bit(l - 1)}
          ELSE {})
    \cup (IF l >= 2 /\ l <= MAX_LEVEL
          THEN {WNeg(Bit(l - 2)), Plus(Bit(l - 2), -1)}
          ELSE {})

Positions(l) == {Pos(x, y) : x \in Coords(l), y \in Coords(l)}

\* coordinates on and next to the bounds of level l >= 2 and of its halves
DescentCoords(l) ==
    {Plus(WNeg(Bit(l - 1)), -1), WNeg(Bit(l - 1)), WNeg(Bit(l - 2)), I(-1), I(0),
     Plus(Bit(l - 1), -2), Plus(Bit(l - 1), -1), Bit(l - 1)}

DescentPositions(l) == {Pos(x, y) : x \in DescentCoords(l), y \in DescentCoords(l)}

\* positions next to p
Neighbours(p) == {Pos(Plus(p.x, 1), p.y), Pos(p.x, Plus(p.y, -1))}

\* coordinates on and next to the bounds of the addressable space
AddrCoords ==
    {Plus(WNeg(Bit(MAX_LEVEL - 1)), -1), WNeg(Bit(MAX_LEVEL - 1)), I(-1), I(0),
     Plus(Bit(MAX_LEVEL - 1), -1), Bit(MAX_LEVEL - 1), I64_MAX}

\* offsets well inside i64
OffsetCoords == {I(-3), I(0), I(1), I(7), Bit(40)}

InitGeom ==
    /\ Builds
    /\ StoreIdle
    /\ op = "init"
    /\ ret = Ok(0)
    /\ \/ \E l \in 1..MAX_LEVEL : arg = [kind |-> "level", level |-> l]
       \/ \E l \in LEAF_LEVEL..MAX_LEVEL, q \in Quadrants :
              arg = [kind |-> "level_quadrant", level |-> l, q |-> q]
       \/ \E l \in 1..MAX_LEVEL : \E p \in Positions(l) :
              arg = [kind |-> "level_pos", level |-> l, p |-> p]
       \/ \E l \in 2..MAX_LEVEL : \E p \in DescentPositions(l) : \E p2 \in Neighbours(p) :
              arg = [kind |-> "descent", level |-> l, p |-> p, p2 |-> p2]
       \/ \E px, py, ox, oy \in AddrCoords :
              arg = [kind |-> "pos_pos", p |-> Pos(px, py), other |-> Pos(ox, oy)]
       \/ \E ax, ay, bx, by \in OffsetCoords :
              arg = [kind |-> "offsets", a |-> Off(ax, ay), b |-> Off(bx, by)]

\* the position a point query continues with in the child it descends to
child_frame(p, l) ==
    LET c == quadrant_center(l, quadrant(p))
    IN  IF c.panic THEN PanicP ELSE relative_to(p, c.val)

\* one descent step for two positions of the same level
descent(p, p2, l) ==
    LET a == in_bounds(p, l)
        b == in_bounds(p2, l)
        ca == child_frame(p, l)
        cb == child_frame(p2, l)
        ia == IF ca.panic THEN PanicB ELSE in_bounds(ca.val, l - 1)
        ib == IF cb.panic THEN PanicB ELSE in_bounds(cb.val, l - 1)
    IN  IF a.panic \/ b.panic \/ ia.panic \/ ib.panic
        THEN [panic |-> TRUE, val |-> <<>>]
        ELSE Ok([inb |-> a.val, inb2 |-> b.val,
                 child |-> ca.val, child2 |-> cb.val,
                 child_inb |-> ia.val, child2_inb |-> ib.val])

GeomMinPos == arg.kind = "level" /\ Apply("min_pos", min_pos(arg.level))
GeomMaxPos == arg.kind = "level" /\ Apply("max_pos", max_pos(arg.level))
GeomQuadrantCenter ==
    arg.kind = "level_quadrant" /\ Apply("quadrant_center", quadrant_center(arg.level, arg.q))
GeomInBounds == arg.kind = "level_pos" /\ Apply("in_bounds", in_bounds(arg.p, arg.level))
GeomDescent == arg.kind = "descent" /\ Apply("descent", descent(arg.p, arg.p2, arg.level))
GeomRelativeTo == arg.kind = "pos_pos" /\ Apply("relative_to", relative_to(arg.p, arg.other))
GeomOffsetAdd == arg.kind = "offsets" /\ Apply("offset_add", Offset_add(arg.a, arg.b))
GeomOffsetAddAssign ==
    arg.kind = "offsets" /\ Apply("offset_add_assign", Offset_add_assign(arg.a, arg.b))
GeomOffsetSub == arg.kind = "offsets" /\ Apply("offset_sub", Offset_sub(arg.a, arg.b))
GeomOffsetSubAssign ==
    arg.kind = "offsets" /\ Apply("offset_sub_assign", Offset_sub_assign(arg.a, arg.b))

NextGeom ==
    \/ GeomMinPos
    \/ GeomMaxPos
    \/ GeomQuadrantCenter
    \/ GeomInBounds
    \/ GeomDescent
    \/ GeomRelativeTo
    \/ GeomOffsetAdd
    \/ GeomOffsetAddAssign
    \/ GeomOffsetSub
    \/ GeomOffsetSubAssign

SpecGeom == InitGeom /\ [][NextGeom]_vars

\* the inclusive coordinate bounds of level l, l in 1..MAX_LEVEL
MinCoord(l) == WNeg(Pow2(l - 1))
MaxCoord(l) == Plus(Pow2(l - 1), -1)
Within(x, l) == ILe(MinCoord(l), x) /\ ILe(x, MaxCoord(l))

\* C3: at every level L in [1, 63], in_bounds(p, L) holds exactly when both
\* coordinates of p lie in the inclusive range min_coord(L)..max_coord(L) =
\* -2^(L-1)..2^(L-1)-1, which spans side_len(L) coordinates, and min_pos(L)
\* and max_pos(L) are in bounds at L.
C3_InBoundsInclusive ==
    /\ op = "in_bounds" =>
          /\ IsPow2(arg.level - 1)
          /\ Plus(WAdd(MaxCoord(arg.level), WNeg(MinCoord(arg.level))).val, 1)
                = side_len(arg.level).val
          /\ ret = Ok(Within(arg.p.x, arg.level) /\ Within(arg.p.y, arg.level))
    /\ op = "min_pos" =>
          /\ ret = Ok(Pos(MinCoord(arg.level), MinCoord(arg.level)))
          /\ in_bounds(ret.val, arg.level) = Ok(TRUE)
    /\ op = "max_pos" =>
          /\ ret = Ok(Pos(MaxCoord(arg.level), MaxCoord(arg.level)))
          /\ in_bounds(ret.val, arg.level) = Ok(TRUE)

\* what in_bounds does: the upper bound max_coord(L) is excluded
InBoundsHalfOpen ==
    /\ op = "in_bounds" =>
          ret = Ok(/\ ILe(MinCoord(arg.level), arg.p.x) /\ ILt(arg.p.x, MaxCoord(arg.level))
                   /\ ILe(MinCoord(arg.level), arg.p.y) /\ ILt(arg.p.y, MaxCoord(arg.level)))
    /\ op = "max_pos" => in_bounds(ret.val, arg.level) = Ok(FALSE)

\* C4: at every level L in [2, 63] the centre of quadrant q has both
\* coordinates of magnitude side_len(L)/4 = 2^(L-2), negative x for the west
\* quadrants and negative y for the north ones, and is itself classified
\* into q by Position::quadrant.
C4_QuadrantCenter ==
    (op = "quadrant_center" /\ arg.level >= 2) =>
        LET m == Pow2(arg.level - 2)
            half == WAdd(m, m)
            west == arg.q \in {"NorthWest", "SouthWest"}
            north == arg.q \in {"NorthWest", "NorthEast"}
        IN  /\ IsPow2(arg.level - 2)
            /\ half.carry = 0
            /\ WAdd(half.val, half.val) = [val |-> side_len(arg.level).val, carry |-> 0]
            /\ ~ret.panic
            /\ ret.val.x = (IF west THEN WNeg(m) ELSE m)
            /\ ret.val.y = (IF north THEN WNeg(m) ELSE m)
            /\ quadrant(ret.val) = arg.q

C4_Witness ==
    /\ op = "quadrant_center"
    /\ arg.level = MAX_LEVEL
    /\ arg.q = "NorthEast"
    /\ ret = Ok(Pos(Bit(MAX_LEVEL - 2), WNeg(Bit(MAX_LEVEL - 2))))

\* r is a + b as integers: equal modulo 2^64 and on the right side of a
ExactSum(r, a, b) ==
    /\ r = WAdd(a, b).val
    /\ IF Negative(b) THEN ILt(r, a) ELSE ILe(a, r)

\* r is a - b as integers
ExactDiff(r, a, b) ==
    /\ WAdd(r, b).val = a
    /\ IF Negative(b) THEN ILt(a, r) ELSE ILe(r, a)

\* C6: Offset a + b is (a.dx + b.dx, a.dy + b.dy) and a - b is
\* (a.dx - b.dx, a.dy - b.dy), the values a += b and a -= b leave in a.
C6_OffsetPerAxis ==
    /\ op = "offset_add" =>
          /\ ~ret.panic
          /\ ExactSum(ret.val.dx, arg.a.dx, arg.b.dx)
          /\ ExactSum(ret.val.dy, arg.a.dy, arg.b.dy)
          /\ ret = Offset_add_assign(arg.a, arg.b)
    /\ op = "offset_sub" =>
          /\ ~ret.panic
          /\ ExactDiff(ret.val.dx, arg.a.dx, arg.b.dx)
          /\ ExactDiff(ret.val.dy, arg.a.dy, arg.b.dy)
          /\ ret = Offset_sub_assign(arg.a, arg.b)

\* C9: at every level L in [2, 63] a position in bounds at L is, in the frame
\* of the quadrant it falls in, in bounds at L - 1, and two distinct in-bounds
\* positions of one quadrant have distinct child-frame positions.
C9_DescentStaysInBounds ==
    op = "descent" =>
        /\ ~ret.panic
        /\ ret.val.inb => ret.val.child_inb
        /\ ret.val.inb2 => ret.val.child2_inb
        /\ (/\ ret.val.inb
            /\ ret.val.inb2
            /\ arg.p # arg.p2
            /\ quadrant(arg.p) = quadrant(arg.p2)) => ret.val.child # ret.val.child2

\* the descent step measured against the inclusive bounds of C3 instead of
\* in_bounds: it never leaves them
DescentWithinInclusiveBounds ==
    op = "descent" =>
        /\ ~ret.panic
        /\ (Within(arg.p.x, arg.level) /\ Within(arg.p.y, arg.level)) =>
              /\ Within(ret.val.child.x, arg.level - 1)
              /\ Within(ret.val.child.y, arg.level - 1)

AddrMin == WNeg(Pow2(MAX_LEVEL - 1))
AddrMax == Plus(Pow2(MAX_LEVEL - 1), -1)
Addressable(p) ==
    /\ ILe(AddrMin, p.x) /\ ILe(p.x, AddrMax)
    /\ ILe(AddrMin, p.y) /\ ILe(p.y, AddrMax)

\* C10: for positions p and o inside the bounds of MAX_LEVEL, relative_to
\* returns (p.x - o.x, p.y - o.y) without i64 overflow, relative to ORIGIN
\* it returns p, and adding Offset(o.x, o.y) back returns p.
C10_RelativeToExact ==
    (op = "relative_to" /\ Addressable(arg.p) /\ Addressable(arg.other)) =>
        /\ ~ret.panic
        /\ ExactDiff(ret.val.x, arg.p.x, arg.other.x)
        /\ ExactDiff(ret.val.y, arg.p.y, arg.other.y)
        /\ arg.other = ORIGIN => ret.val = arg.p
        /\ Position_add(ret.val, Off(arg.other.x, arg.other.y)) = Ok(arg.p)

C10_Witness ==
    /\ op = "relative_to"
    /\ overflow_checks
    /\ arg.p = Pos(AddrMax, AddrMin)
    /\ arg.other = Pos(AddrMin, AddrMax)
    /\ ret = Ok(Pos(I64_MAX, Plus(I64_MIN, 1)))

(***************************************************************************)
(* Canonical node store                                                    *)
(*                                                                         *)
(* A node reference is an index into `nodes`; the content of a leaf is its *)
(* cell, the content of an inner node its level and four child references. *)
(***************************************************************************)
Cells == {"Dead", "Alive"}

MaxNodes == 4
MaxStoreLevel == 2

LeafContent(c) == [level |-> LEAF_LEVEL, cell |-> c, nw |-> 0, ne |-> 0, sw |-> 0, se |-> 0]
InnerContent(l, nw, ne, sw, se) ==
    [level |-> l, cell |-> "None", nw |-> nw, ne |-> ne, sw |-> sw, se |-> se]

\* a store that registers a node for every request, never looking one up
intern_always_registers(store, content) ==
    [nodes |-> Append(store, content), ref |-> Len(store) + 1, fresh |-> TRUE]

\* the unique existing node with that content if there is one, else a new one
intern(store, content) ==
    IF \E i \in 1..Len(store) : store[i] = content
    THEN [nodes |-> store,
          ref |-> CHOOSE i \in 1..Len(store) : store[i] = content,
          fresh |-> FALSE]
    ELSE [nodes |-> Append(store, content), ref |-> Len(store) + 1, fresh |-> TRUE]

\* leaf(cell)
leaf(store, c) == intern(store, LeafContent(c))

\* inner(level, nw, ne, sw, se) "validates all four children are at level-1"
children_valid(store, l, nw, ne, sw, se) ==
    /\ l >= 1
    /\ \A r \in {nw, ne, sw, se} : r \in 1..Len(store) /\ store[r].level = l - 1

\* inner(level, nw, ne, sw, se), children valid
inner(store, l, nw, ne, sw, se) == intern(store, InnerContent(l, nw, ne, sw, se))

\* the store does no arithmetic: one build stands for all
InitStore ==
    /\ overflow_checks = TRUE
    /\ debug_assertions = TRUE
    /\ nodes = <<>>
    /\ calls = {}
    /\ universe = NoUniverse
    /\ before = NoUniverse
    /\ snap = <<>>
    /\ nops = 0
    /\ op = "init"
    /\ arg = LeafContent("Dead")
    /\ ret = [panic |-> FALSE, ref |-> 0, fresh |-> FALSE]

StoreCall(name, content, r) ==
    /\ Len(r.nodes) <= MaxNodes
    /\ nodes' = r.nodes
    /\ calls' = calls \cup {[key |-> content, ref |-> r.ref]}
    /\ op' = name
    /\ arg' = content
    /\ ret' = [panic |-> FALSE, ref |-> r.ref, fresh |-> r.fresh]
    /\ UNCHANGED <<buildVars, universe, before, snap, nops>>

StoreLeaf ==
    \E c \in Cells : StoreCall("leaf", LeafContent(c), leaf(nodes, c))

\* references of the nodes at level l
RefsAt(store, l) == {i \in 1..Len(store) : store[i].level = l}

StoreInner ==
    \E l \in 1..MaxStoreLevel : \E nw, ne, sw, se \in RefsAt(nodes, l - 1) :
        /\ children_valid(nodes, l, nw, ne, sw, se)
        /\ StoreCall("inner", InnerContent(l, nw, ne, sw, se),
                     inner(nodes, l, nw, ne, sw, se))

\* ContractViolation: children that are not at level - 1; the store is left as it is
StoreInnerRejected ==
    \E l \in 1..MaxStoreLevel : \E bad \in {1, Len(nodes)} \cap (1..Len(nodes)) :
        /\ ~children_valid(nodes, l, bad, bad, bad, bad)
        /\ op' = "inner"
        /\ arg' = InnerContent(l, bad, bad, bad, bad)
        /\ ret' = [panic |-> TRUE, ref |-> 0, fresh |-> FALSE]
        /\ UNCHANGED <<buildVars, storeVars>>

NextStore ==
    \/ StoreLeaf
    \/ StoreInner
    \/ StoreInnerRejected

SpecStore == InitStore /\ [][NextStore]_vars

\* C7: after any sequence of leaf and inner calls, two calls returned the
\* same reference exactly when they were given the same content; the store
\* holds no two nodes with the same content, so leaf(Dead) and leaf(Alive)
\* are one node each, and a returned reference denotes the content asked for.
C7_Canonical ==
    /\ \A c1, c2 \in calls : (c1.key = c2.key) <=> (c1.ref = c2.ref)
    /\ \A i, j \in 1..Len(nodes) : nodes[i] = nodes[j] => i = j
    /\ \A c \in Cells : Cardinality({i \in 1..Len(nodes) : nodes[i] = LeafContent(c)}) <= 1
    /\ \A c \in calls : c.ref \in 1..Len(nodes) /\ nodes[c.ref] = c.key

\* a repeated inner call returned the node of the first, and another inner
\* node and both leaves exist beside it
C7_Witness ==
    /\ op = "inner"
    /\ ~ret.panic
    /\ ~ret.fresh
    /\ Cardinality({c \in calls : c.key.level >= 1}) >= 2
    /\ \A c \in Cells : \E k \in calls : k.key = LeafContent(c)

(***************************************************************************)
(* Universe facade: a root reference and its level, over the node store    *)
(***************************************************************************)
MaxOps == 3
MaxQuery == 4
InitialLevel == 1

\* the child of an inner node in quadrant q
Child(n, q) ==
    CASE q = "NorthWest" -> n.nw
      [] q = "NorthEast" -> n.ne
      [] q = "SouthWest" -> n.sw
      [] q = "SouthEast" -> n.se

\* the canonical all-dead node of level l
RECURSIVE empty_node(_, _)
empty_node(store, l) ==
    IF l = LEAF_LEVEL THEN leaf(store, "Dead")
    ELSE LET e == empty_node(store, l - 1)
         IN  inner(e.nodes, l, e.ref, e.ref, e.ref, e.ref)

\* a universe with no live cell
new_universe(store) ==
    LET e == empty_node(store, InitialLevel)
    IN  [nodes |-> e.nodes, universe |-> [root |-> e.ref, level |-> InitialLevel]]

\* the root one level up with the old root wrapped whole as the SouthEast
\* quadrant of the new root and the other three quadrants dead.  The new
\* root is centred on the origin like every root, so under this placement
\* the old root's cells are read back shifted by half its side.
grow_as_one_quadrant(store, u) ==
    LET up == Level_add(u.level, 1)
        e == empty_node(store, u.level)
        top == inner(e.nodes, up.val, e.ref, e.ref, e.ref, u.root)
    IN  IF up.panic
        THEN [panic |-> TRUE, nodes |-> store, universe |-> u]
        ELSE [panic |-> FALSE, nodes |-> top.nodes,
              universe |-> [root |-> top.ref, level |-> up.val]]

\* the root one level up, still centred on the origin and with every cell
\* at the position it had: each quadrant of the old root becomes the inner
\* corner of the same quadrant of the new root, the rest is dead padding.
\* This is the placement under which the root stays "centered on the
\* origin" and "all prior live cells [are] still queryable at their
\* original positions"; keeping the old root whole as one quadrant of an
\* origin-centred root (grow_as_one_quadrant) cannot give both.
grow(store, u) ==
    LET r == store[u.root]
        up == Level_add(u.level, 1)
        e == empty_node(store, u.level - 1)
        nw == inner(e.nodes, u.level, e.ref, e.ref, e.ref, r.nw)
        ne == inner(nw.nodes, u.level, e.ref, e.ref, r.ne, e.ref)
        sw == inner(ne.nodes, u.level, e.ref, r.sw, e.ref, e.ref)
        se == inner(sw.nodes, u.level, r.se, e.ref, e.ref, e.ref)
        top == inner(se.nodes, up.val, nw.ref, ne.ref, sw.ref, se.ref)
    IN  IF up.panic
        THEN [panic |-> TRUE, nodes |-> store, universe |-> u]
        ELSE [panic |-> FALSE, nodes |-> top.nodes,
              universe |-> [root |-> top.ref, level |-> up.val]]

\* F applied to the value of x, evaluated once
Strict(F(_), x) == CHOOSE r \in {F(v) : v \in {x}} : TRUE

\* descent from node n of level l to the leaf holding p
RECURSIVE cell_at(_, _, _, _)
cell_at(store, n, l, p) ==
    IF l = LEAF_LEVEL THEN store[n].cell
    ELSE Strict(LAMBDA pc : cell_at(store, Child(store[n], quadrant(p)), l - 1, pc),
                child_frame(p, l).val)

\* get_cell: positions outside the root's coord_range are Dead
get_cell(store, u, p) ==
    IF in_bounds(p, u.level).val THEN cell_at(store, u.root, u.level, p) ELSE "Dead"

\* the node of level l that is n with the cell at p replaced by c
RECURSIVE with_cell(_, _, _, _, _)
with_cell(store, n, l, p, c) ==
    IF l = LEAF_LEVEL THEN leaf(store, c)
    ELSE LET q == quadrant(p)
             old == store[n]
             sub == Strict(LAMBDA pc : with_cell(store, Child(old, q), l - 1, pc, c),
                           child_frame(p, l).val)
         IN  inner(sub.nodes, l,
                   IF q = "NorthWest" THEN sub.ref ELSE old.nw,
                   IF q = "NorthEast" THEN sub.ref ELSE old.ne,
                   IF q = "SouthWest" THEN sub.ref ELSE old.sw,
                   IF q = "SouthEast" THEN sub.ref ELSE old.se)

\* set_cell: grow the root until p is in bounds, then rebuild the path to p
RECURSIVE set_cell(_, _, _, _)
set_cell(store, u, p, c) ==
    IF in_bounds(p, u.level).val
    THEN LET r == with_cell(store, u.root, u.level, p, c)
         IN  [panic |-> FALSE, nodes |-> r.nodes,
              universe |-> [root |-> r.ref, level |-> u.level]]
    ELSE LET g == grow(store, u)
         IN  IF g.panic THEN g ELSE set_cell(g.nodes, g.universe, p, c)

\* positions written to: one in each quadrant next to the origin, inside the
\* level-2 root, and one in NorthEast that needs the level-3 root
SetPositions ==
    {Pos(I(-1), I(-1)), Pos(I(0), I(-1)), Pos(I(-1), I(0)), Pos(I(0), I(0)),
     Pos(I(1), I(-2))}

\* positions cleared: one inside the level-2 root, one that needs level 3
ClearPositions == {Pos(I(0), I(-1)), Pos(I(1), I(-2))}

\* the set_cell calls made
Writes ==
    {[p |-> p, c |-> "Alive"] : p \in SetPositions}
        \cup {[p |-> p, c |-> "Dead"] : p \in ClearPositions}

\* positions read back
QueryCoords == (-MaxQuery)..(MaxQuery - 1)
QueryPositions == {Pos(I(x), I(y)) : x \in QueryCoords, y \in QueryCoords}

InitUniverse ==
    /\ Builds
    /\ overflow_checks = debug_assertions
    /\ LET n == new_universe(<<>>)
       IN  /\ nodes = n.nodes
           /\ universe = n.universe
           /\ before = n.universe
           /\ snap = n.nodes
    /\ calls = {}
    /\ nops = 0
    /\ op = "init"
    /\ arg = [p |-> ORIGIN, c |-> "Dead"]
    /\ ret = [panic |-> FALSE, val |-> "Dead"]

UniverseSetCell ==
    \E w \in Writes :
        LET p == w.p
            c == w.c
            r == set_cell(nodes, universe, p, c)
        IN  /\ nops < MaxOps
            /\ ~r.panic
            /\ snap' = nodes
            /\ before' = universe
            /\ nodes' = r.nodes
            /\ universe' = r.universe
            /\ nops' = nops + 1
            /\ op' = "set_cell"
            /\ arg' = [p |-> p, c |-> c]
            /\ ret' = [panic |-> FALSE, val |-> c]
            /\ UNCHANGED <<buildVars, calls>>

\* a point query: no effect on the universe or the store; ret is the cell read
UniverseGetCell ==
    \E p \in SetPositions :
        /\ op' = "get_cell"
        /\ ret' = [panic |-> FALSE, val |-> get_cell(nodes, universe, p)]
        /\ UNCHANGED <<buildVars, storeVars, arg>>

NextUniverse ==
    \/ UniverseSetCell
    \/ UniverseGetCell

SpecUniverse == InitUniverse /\ [][NextUniverse]_vars

====
